---- MODULE Spec2Model ----
(***************************************************************************)
(* GeneratedAssetSymbols.h of HighlanderHomes, read the way a C/Objective-C *)
(* front end reads it: a translation unit includes the header, the          *)
(* preprocessor walks its twelve lines keeping a macro table and a          *)
(* conditional stack, the one declaration is macro-expanded and parsed      *)
(* into a symbol, and the linked program then runs the statements of the    *)
(* including code.  The same translation unit is compiled by several        *)
(* toolchains side by side; they differ only in whether they know the       *)
(* swift_private attribute.                                                 *)
(***************************************************************************)
EXTENDS Naturals, Integers, Sequences, FiniteSets, TLC

(* ------------------------------ bounds --------------------------------- *)
NumToolchains == 2      \* toolchains compiling the same translation unit
MaxIncludes == 2        \* inclusion directives of the header in one unit
MaxStmts == 2           \* statements of the including code that use the constant

Toolchains == 1..NumToolchains

(* ----------------------------- lexemes --------------------------------- *)
\* Spellings are sequences of characters, so that prefixes, suffixes and
\* quoting are computed and not assumed.
L_ACImageNameHighlanderLogo ==
  <<"A","C","I","m","a","g","e","N","a","m","e",
    "H","i","g","h","l","a","n","d","e","r","L","o","g","o">>
L_ACImageNameWrong ==
  <<"A","C","I","m","a","g","e","N","a","m","e",
    "L","o","g","o">>
L_AC_SWIFT_PRIVATE ==
  <<"A","C","_","S","W","I","F","T","_","P","R","I","V","A","T","E">>
L_AC_SWIFT_PRIVAT ==
  <<"A","C","_","S","W","I","F","T","_","P","R","I","V","A","T">>
L_swift_private ==
  <<"s","w","i","f","t","_","p","r","i","v","a","t","e">>
L_NSString == <<"N","S","S","t","r","i","n","g">>
L_Foundation ==
  <<"F","o","u","n","d","a","t","i","o","n","/",
    "F","o","u","n","d","a","t","i","o","n",".","h">>
L_GeneratedAssetSymbols ==
  <<"G","e","n","e","r","a","t","e","d","A","s","s","e","t",
    "S","y","m","b","o","l","s",".","h">>
\* the spelling of the literal on line 10, @"HighlanderLogo", quotes included
L_Literal ==
  <<"@","\"","H","i","g","h","l","a","n","d","e","r","L","o","g","o","\"">>
L_LiteralWrong ==
  <<"@","\"","h","i","g","h","l","a","n","d","e","r","L","o","g","o","\"">>
\* the text of the doc comment on line 9 after the three slashes
L_DocComment ==
  <<"T","h","e"," ","\"","H","i","g","h","l","a","n","d","e","r","L","o","g","o","\"",
    " ","a","s","s","e","t"," ","c","a","t","a","l","o","g"," ",
    "i","m","a","g","e"," ","r","e","s","o","u","r","c","e",".">>
\* what the including code may write around the header
L_APP_MACRO == <<"A","P","P">>
L_Other == <<"O","t","h","e","r">>

Tok(k, s) == [k |-> k, s |-> s]

(* --------------------------- the header -------------------------------- *)
Line1 == [kind |-> "import", file |-> L_Foundation]
Line2 == [kind |-> "blank"]
Line3 == [kind |-> "if", has_attribute |-> L_swift_private]
Line4 == [kind |-> "define", name |-> L_AC_SWIFT_PRIVATE,
          body |-> <<Tok("__attribute__", L_swift_private)>>]
Line5 == [kind |-> "else"]
Line6Misspelt == [kind |-> "define", name |-> L_AC_SWIFT_PRIVAT, body |-> <<>>]
Line6AlsoPrivate == Line4
Line6 == [kind |-> "define", name |-> L_AC_SWIFT_PRIVATE, body |-> <<>>]
Line7 == [kind |-> "endif"]
Line8 == [kind |-> "blank"]
Line9 == [kind |-> "comment", text |-> L_DocComment]
Line10WrongLiteral ==
  [kind |-> "text",
   toks |-> <<Tok("static", <<>>), Tok("id", L_NSString), Tok("*", <<>>),
              Tok("const", <<>>), Tok("id", L_ACImageNameHighlanderLogo),
              Tok("id", L_AC_SWIFT_PRIVATE), Tok("=", <<>>),
              Tok("str", L_LiteralWrong), Tok(";", <<>>)>>]
Line10WrongName ==
  [kind |-> "text",
   toks |-> <<Tok("static", <<>>), Tok("id", L_NSString), Tok("*", <<>>),
              Tok("const", <<>>), Tok("id", L_ACImageNameWrong),
              Tok("id", L_AC_SWIFT_PRIVATE), Tok("=", <<>>),
              Tok("str", L_Literal), Tok(";", <<>>)>>]
Line10NotConst ==
  [kind |-> "text",
   toks |-> <<Tok("static", <<>>), Tok("id", L_NSString), Tok("*", <<>>),
              Tok("id", L_ACImageNameHighlanderLogo),
              Tok("id", L_AC_SWIFT_PRIVATE), Tok("=", <<>>),
              Tok("str", L_Literal), Tok(";", <<>>)>>]
Line10 ==
  [kind |-> "text",
   toks |-> <<Tok("static", <<>>), Tok("id", L_NSString), Tok("*", <<>>),
              Tok("const", <<>>), Tok("id", L_ACImageNameHighlanderLogo),
              Tok("id", L_AC_SWIFT_PRIVATE), Tok("=", <<>>),
              Tok("str", L_Literal), Tok(";", <<>>)>>]
Line11 == [kind |-> "blank"]
Line12WrongName == [kind |-> "undef", name |-> L_AC_SWIFT_PRIVAT]
Line12 == [kind |-> "undef", name |-> L_AC_SWIFT_PRIVATE]

Header == <<Line1, Line2, Line3, Line4, Line5, Line6,
            Line7, Line8, Line9, Line10, Line11, Line12>>
EndOfFile == Len(Header) + 1

(* ------------------------- front-end helpers --------------------------- *)
\* an Objective-C string literal @"..." denotes the characters between the quotes
StringValue(lex) == SubSeq(lex, 3, Len(lex) - 1)

\* the quoted name inside the doc comment
FirstQuote(cs) == CHOOSE i \in 1..Len(cs) :
                    cs[i] = "\"" /\ \A j \in 1..(i-1) : cs[j] # "\""
SecondQuote(cs) == CHOOSE i \in (FirstQuote(cs)+1)..Len(cs) :
                     cs[i] = "\"" /\ \A j \in (FirstQuote(cs)+1)..(i-1) : cs[j] # "\""
QuotedName(cs) == SubSeq(cs, FirstQuote(cs) + 1, SecondQuote(cs) - 1)

IsDefined(m, name) == name \in DOMAIN m
DefineMacro(m, name, body) ==
  [n \in DOMAIN m \cup {name} |-> IF n = name THEN body ELSE m[n]]
UndefMacroKeeps(m, name) == m
UndefMacro(m, name) == [n \in DOMAIN m \ {name} |-> m[n]]

\* macro expansion of a line of text: an identifier that names a macro is
\* replaced by the macro's body, rescanned with that macro hidden
RECURSIVE Expand(_, _)
Expand(m, toks) ==
  IF toks = <<>> THEN <<>>
  ELSE LET h == Head(toks) IN
       (IF h.k = "id" /\ IsDefined(m, h.s)
          THEN Expand(UndefMacro(m, h.s), m[h.s])
          ELSE <<h>>) \o Expand(m, Tail(toks))

KnownType(files, name) == name = L_NSString /\ L_Foundation \in files

\* the declaration grammar of line 10:
\*   static <type> * [const] <name> <attribute>* = <string literal> ;
HasConst(toks) == Len(toks) >= 4 /\ toks[4].k = "const"
NameAt(toks) == IF HasConst(toks) THEN 5 ELSE 4
EqualsAt(toks) ==
  IF \E i \in 1..Len(toks) : toks[i].k = "="
    THEN CHOOSE i \in 1..Len(toks) :
           toks[i].k = "=" /\ \A j \in 1..(i-1) : toks[j].k # "="
    ELSE 0
WellFormed(toks, files) ==
  LET n == NameAt(toks)  e == EqualsAt(toks) IN
    /\ e > n
    /\ Len(toks) = e + 2
    /\ toks[1].k = "static"
    /\ toks[2].k = "id" /\ KnownType(files, toks[2].s)
    /\ toks[3].k = "*"
    /\ toks[n].k = "id"
    /\ \A i \in (n+1)..(e-1) : toks[i].k = "__attribute__"
    /\ toks[e+1].k = "str"
    /\ toks[e+2].k = ";"
\* the symbol a well-formed declaration introduces; an attribute the
\* toolchain does not know is dropped (with a warning, see PPText)
ParseDeclaration(toks, known) ==
  LET n == NameAt(toks)  e == EqualsAt(toks) IN
    [name       |-> toks[n].s,
     type       |-> toks[2].s,
     pointer    |-> TRUE,
     storage    |-> "static",
     const      |-> HasConst(toks),
     annotation |-> SubSeq(toks, n + 1, e - 1),
     attrs      |-> {toks[i].s : i \in (n+1)..(e-1)} \cap known,
     value      |-> StringValue(toks[e+1].s)]
UnknownAttrs(toks, known) ==
  {toks[i].s : i \in (NameAt(toks)+1)..(EqualsAt(toks)-1)} \ known

Error(msg) == [sev |-> "error", msg |-> msg]
Warning(msg) == [sev |-> "warning", msg |-> msg]
HasErrors(ds) == \E d \in ds : d.sev = "error"

(* ------------------------------ state ---------------------------------- *)
VARIABLES
  supported,    \* per toolchain: the attributes __has_attribute answers 1 for
  phase,        \* "compile" or "runtime"
  pc,           \* 0 in the including code, else the header line being read
  includes,     \* inclusion directives of the header seen so far
  imported,     \* per toolchain: files already brought in (#import is once-only)
  macros,       \* per toolchain: the macro table, name -> body
  entryMacros,  \* per toolchain: macro names defined when the header was entered
  conds,        \* per toolchain: stack of open #if groups
  symbols,      \* per toolchain: the declarations of the translation unit
  diags,        \* per toolchain: diagnostics issued
  prog,         \* statements of the including code that use the constant
  rpc,          \* next statement to run
  mem,          \* per toolchain: the storage of the constant in the linked program
  lastRead      \* per toolchain: what the including code last read from it

vars == <<supported, phase, pc, includes, imported, macros, entryMacros,
          conds, symbols, diags, prog, rpc, mem, lastRead>>

NoMacros == [n \in {} |-> <<>>]
Unlinked == [linked |-> FALSE, value |-> <<>>]

Init ==
  /\ supported \in [Toolchains -> SUBSET {L_swift_private}]
  /\ phase = "compile"
  /\ pc = 0
  /\ includes = 0
  /\ imported = [t \in Toolchains |-> {}]
  /\ macros = [t \in Toolchains |-> NoMacros]
  /\ entryMacros = [t \in Toolchains |-> {}]
  /\ conds = [t \in Toolchains |-> <<>>]
  /\ symbols = [t \in Toolchains |-> {}]
  /\ diags = [t \in Toolchains |-> {}]
  /\ prog = <<>>
  /\ rpc = 1
  /\ mem = [t \in Toolchains |-> Unlinked]
  /\ lastRead = [t \in Toolchains |-> <<>>]

HasAttribute(t, a) == a \in supported[t]
Active(t) == \A i \in 1..Len(conds[t]) : conds[t][i] = "taking"
InHeader(kind) ==
  /\ phase = "compile"
  /\ pc \in 1..Len(Header)
  /\ Header[pc].kind = kind
Lookup(t, name) == {d \in symbols[t] : d.name = name}

(* ----------------------- the including code ---------------------------- *)
AlreadyImported == \A t \in Toolchains : L_GeneratedAssetSymbols \in imported[t]
EnterHeader ==
  /\ pc' = 1
  /\ entryMacros' = [t \in Toolchains |-> DOMAIN macros[t]]

\* #import "GeneratedAssetSymbols.h": reads the file unless it was read before
IncluderImport ==
  /\ phase = "compile" /\ pc = 0 /\ includes < MaxIncludes
  /\ includes' = includes + 1
  /\ IF AlreadyImported
       THEN UNCHANGED <<pc, entryMacros, imported>>
       ELSE /\ EnterHeader
            /\ imported' = [t \in Toolchains |->
                              imported[t] \cup {L_GeneratedAssetSymbols}]
  /\ UNCHANGED <<supported, phase, macros, conds, symbols, diags,
                 prog, rpc, mem, lastRead>>

\* #include "GeneratedAssetSymbols.h": reads the file every time
IncluderInclude ==
  /\ phase = "compile" /\ pc = 0 /\ includes < MaxIncludes
  /\ includes' = includes + 1
  /\ EnterHeader
  /\ imported' = [t \in Toolchains |->
                    imported[t] \cup {L_GeneratedAssetSymbols}]
  /\ UNCHANGED <<supported, phase, macros, conds, symbols, diags,
                 prog, rpc, mem, lastRead>>

\* a #define of the including code, of its own macro or of the header's name
IncluderDefine(name) ==
  /\ phase = "compile" /\ pc = 0
  /\ \A t \in Toolchains : ~IsDefined(macros[t], name)
  /\ macros' = [t \in Toolchains |->
                  DefineMacro(macros[t], name, <<Tok("id", L_Other)>>)]
  /\ UNCHANGED <<supported, phase, pc, includes, imported, entryMacros, conds,
                 symbols, diags, prog, rpc, mem, lastRead>>

\* a statement of the including code that names the constant: a read of it,
\* or an assignment to it, which the compiler refuses for a const object
StmtDiags(t, stmt) ==
  LET ds == Lookup(t, L_ACImageNameHighlanderLogo) IN
    IF ds = {} THEN {Error("use of undeclared identifier")}
    ELSE IF stmt = "assign" /\ \E d \in ds : d.const
      THEN {Error("cannot assign to variable with const-qualified type")}
    ELSE {}
IncluderStmt(stmt) ==
  /\ phase = "compile" /\ pc = 0 /\ Len(prog) < MaxStmts
  /\ prog' = Append(prog, stmt)
  /\ diags' = [t \in Toolchains |-> diags[t] \cup StmtDiags(t, stmt)]
  /\ UNCHANGED <<supported, phase, pc, includes, imported, macros, entryMacros,
                 conds, symbols, rpc, mem, lastRead>>

(* -------------------------- the preprocessor --------------------------- *)
\* line 1: #import <Foundation/Foundation.h>
PPImport ==
  /\ InHeader("import")
  /\ imported' = [t \in Toolchains |->
                    IF Active(t) THEN imported[t] \cup {Header[pc].file}
                    ELSE imported[t]]
  /\ pc' = pc + 1
  /\ UNCHANGED <<supported, phase, includes, macros, entryMacros, conds,
                 symbols, diags, prog, rpc, mem, lastRead>>

\* lines 2, 8, 9, 11: nothing reaches the compiler
PPSkip ==
  /\ InHeader("blank") \/ InHeader("comment")
  /\ pc' = pc + 1
  /\ UNCHANGED <<supported, phase, includes, imported, macros, entryMacros,
                 conds, symbols, diags, prog, rpc, mem, lastRead>>

\* line 3: #if __has_attribute(swift_private)
PPIf ==
  /\ InHeader("if")
  /\ conds' = [t \in Toolchains |->
                 Append(conds[t],
                        IF ~Active(t) THEN "taken"
                        ELSE IF HasAttribute(t, Header[pc].has_attribute)
                          THEN "taking" ELSE "seeking")]
  /\ pc' = pc + 1
  /\ UNCHANGED <<supported, phase, includes, imported, macros, entryMacros,
                 symbols, diags, prog, rpc, mem, lastRead>>

\* line 5: #else
ElseOf(g) == IF g = "seeking" THEN "taking" ELSE "taken"
PPElse ==
  /\ InHeader("else")
  /\ \A t \in Toolchains : conds[t] # <<>>
  /\ conds' = [t \in Toolchains |->
                 [conds[t] EXCEPT ![Len(conds[t])] = ElseOf(@)]]
  /\ pc' = pc + 1
  /\ UNCHANGED <<supported, phase, includes, imported, macros, entryMacros,
                 symbols, diags, prog, rpc, mem, lastRead>>

\* line 7: #endif
PPEndif ==
  /\ InHeader("endif")
  /\ \A t \in Toolchains : conds[t] # <<>>
  /\ conds' = [t \in Toolchains |-> SubSeq(conds[t], 1, Len(conds[t]) - 1)]
  /\ pc' = pc + 1
  /\ UNCHANGED <<supported, phase, includes, imported, macros, entryMacros,
                 symbols, diags, prog, rpc, mem, lastRead>>

\* lines 4 and 6: #define AC_SWIFT_PRIVATE ..., in the group being taken
Redefines(m, name, body) == IsDefined(m, name) /\ m[name] # body
PPDefine ==
  /\ InHeader("define")
  /\ macros' = [t \in Toolchains |->
                  IF Active(t)
                    THEN DefineMacro(macros[t], Header[pc].name, Header[pc].body)
                    ELSE macros[t]]
  /\ diags' = [t \in Toolchains |->
                 IF Active(t) /\ Redefines(macros[t], Header[pc].name, Header[pc].body)
                   THEN diags[t] \cup {Warning("macro redefined")}
                   ELSE diags[t]]
  /\ pc' = pc + 1
  /\ UNCHANGED <<supported, phase, includes, imported, entryMacros, conds,
                 symbols, prog, rpc, mem, lastRead>>

\* line 12: #undef AC_SWIFT_PRIVATE
PPUndef ==
  /\ InHeader("undef")
  /\ macros' = [t \in Toolchains |->
                  IF Active(t) THEN UndefMacro(macros[t], Header[pc].name)
                  ELSE macros[t]]
  /\ pc' = pc + 1
  /\ UNCHANGED <<supported, phase, includes, imported, entryMacros, conds,
                 symbols, diags, prog, rpc, mem, lastRead>>

\* line 10: the declaration, macro-expanded and handed to the parser
TextDiags(t, toks) ==
  IF ~WellFormed(toks, imported[t]) THEN {Error("expected declaration")}
  ELSE (IF Lookup(t, ParseDeclaration(toks, supported[t]).name) # {}
          THEN {Error("redefinition")} ELSE {})
       \cup (IF UnknownAttrs(toks, supported[t]) # {}
               THEN {Warning("unknown attribute ignored")} ELSE {})
TextSymbols(t, toks) ==
  IF WellFormed(toks, imported[t])
     /\ Lookup(t, ParseDeclaration(toks, supported[t]).name) = {}
    THEN {ParseDeclaration(toks, supported[t])}
    ELSE {}
PPText ==
  /\ InHeader("text")
  /\ symbols' = [t \in Toolchains |->
                   IF Active(t)
                     THEN symbols[t] \cup TextSymbols(t, Expand(macros[t], Header[pc].toks))
                     ELSE symbols[t]]
  /\ diags' = [t \in Toolchains |->
                 IF Active(t)
                   THEN diags[t] \cup TextDiags(t, Expand(macros[t], Header[pc].toks))
                   ELSE diags[t]]
  /\ pc' = pc + 1
  /\ UNCHANGED <<supported, phase, includes, imported, macros, entryMacros,
                 conds, prog, rpc, mem, lastRead>>

\* the end of the header: back to the including code
PPEndOfFile ==
  /\ phase = "compile" /\ pc = EndOfFile
  /\ pc' = 0
  /\ UNCHANGED <<supported, phase, includes, imported, macros, entryMacros,
                 conds, symbols, diags, prog, rpc, mem, lastRead>>

(* --------------------------- link and run ------------------------------ *)
\* a toolchain that reported no error links the program; the constant's
\* storage is initialised from its declaration
Storage(t) ==
  LET ds == Lookup(t, L_ACImageNameHighlanderLogo) IN
    IF HasErrors(diags[t]) \/ ds = {} THEN Unlinked
    ELSE [linked |-> TRUE, value |-> (CHOOSE d \in ds : TRUE).value]
FinishCompile ==
  /\ phase = "compile" /\ pc = 0
  /\ phase' = "runtime"
  /\ mem' = [t \in Toolchains |-> Storage(t)]
  /\ UNCHANGED <<supported, pc, includes, imported, macros, entryMacros, conds,
                 symbols, diags, prog, rpc, lastRead>>

\* the linked program runs the including code's statements in order
RuntimeStep ==
  /\ phase = "runtime" /\ rpc <= Len(prog)
  /\ rpc' = rpc + 1
  /\ mem' = [t \in Toolchains |->
               IF mem[t].linked /\ prog[rpc] = "assign"
                 THEN [mem[t] EXCEPT !.value = L_Other]
                 ELSE mem[t]]
  /\ lastRead' = [t \in Toolchains |->
                    IF mem[t].linked /\ prog[rpc] = "read"
                      THEN mem[t].value
                      ELSE lastRead[t]]
  /\ UNCHANGED <<supported, phase, pc, includes, imported, macros, entryMacros,
                 conds, symbols, diags, prog>>

Next ==
  \/ IncluderImport
  \/ IncluderInclude
  \/ \E name \in {L_AC_SWIFT_PRIVATE, L_APP_MACRO} : IncluderDefine(name)
  \/ \E stmt \in {"read", "assign"} : IncluderStmt(stmt)
  \/ PPImport
  \/ PPSkip
  \/ PPIf
  \/ PPElse
  \/ PPEndif
  \/ PPDefine
  \/ PPUndef
  \/ PPText
  \/ PPEndOfFile
  \/ FinishCompile
  \/ RuntimeStep

Spec == Init /\ [][Next]_vars

(* ------------------------------ claims --------------------------------- *)
TheName == L_ACImageNameHighlanderLogo
CatalogName == QuotedName(Line9.text)
L_ACImageName == <<"A","C","I","m","a","g","e","N","a","m","e">>
PrivateAnnotation == <<Tok("__attribute__", L_swift_private)>>
JustDeclared == pc = 11 /\ \A t \in Toolchains : symbols[t] # {}
MixedSupport ==
  \E t1, t2 \in Toolchains :
    HasAttribute(t1, L_swift_private) /\ ~HasAttribute(t2, L_swift_private)

\* C1: every symbol the header declares has as its value exactly the
\* catalog resource name quoted in the doc comment of line 9, character for
\* character: what stands between the quotes of the literal on line 10, with
\* no prefix, no suffix and no change of case.
C1_ValueIsCatalogName ==
  \A t \in Toolchains : \A d \in symbols[t] : d.value = CatalogName

\* C1 witness: line 10 has just been read and the constant is declared.
C1_Witness ==
  /\ JustDeclared
  /\ includes = 1
  /\ \A t \in Toolchains : Lookup(t, TheName) # {}

\* C3: the annotation of the declared constant has two outcomes, decided
\* while compiling by the toolchain's answer to __has_attribute: with
\* swift_private supported the annotation is that attribute and the symbol
\* carries it, without it the annotation is empty and the symbol carries no
\* attribute; and no conditional group is still open when the program runs.
C3_AnnotationTwoOutcomes ==
  /\ \A t \in Toolchains : \A d \in symbols[t] :
       IF HasAttribute(t, L_swift_private)
         THEN d.annotation = PrivateAnnotation /\ d.attrs = {L_swift_private}
         ELSE d.annotation = <<>> /\ d.attrs = {}
  /\ phase = "runtime" => \A t \in Toolchains : conds[t] = <<>>

\* C3 witness: the declaration has been read by a toolchain that supports
\* the attribute and by one that does not, and the two outcomes are there.
C3_Witness ==
  /\ JustDeclared
  /\ \E t1, t2 \in Toolchains :
       /\ \E d \in symbols[t1] : d.attrs = {L_swift_private}
       /\ \E d \in symbols[t2] : d.attrs = {}

\* C4: in the running program the constant's storage always holds the value
\* of its declaration, and a translation unit that assigns to the constant
\* is never linked, so no statement can reassign it.
C4_NeverMutated ==
  /\ \A t \in Toolchains :
       mem[t].linked => \A d \in Lookup(t, TheName) : mem[t].value = d.value
  /\ (phase = "runtime" /\ \E i \in 1..Len(prog) : prog[i] = "assign")
       => \A t \in Toolchains : ~mem[t].linked

\* C4 witness: a linked program has run all its statements, reading the
\* constant, and what it read is the declared value.
C4_Witness ==
  /\ phase = "runtime" /\ Len(prog) > 0 /\ rpc > Len(prog)
  /\ \A t \in Toolchains : mem[t].linked /\ lastRead[t] = mem[t].value

C6_NameIsPrefixPlusCatalogName ==
  \A t \in Toolchains : \A d \in symbols[t] :
    /\ d.name = L_ACImageName \o CatalogName
    /\ SubSeq(d.name, 1, Len(L_ACImageName)) = L_ACImageName
    /\ SubSeq(d.name, Len(L_ACImageName) + 1, Len(d.name)) = d.value

\* C6 witness: the header has been read to its end and the constant is
\* declared under its name.
C6_Witness ==
  /\ pc = EndOfFile
  /\ \A t \in Toolchains : \E d \in symbols[t] : d.name = TheName

\* C7: at the end of the header AC_SWIFT_PRIVATE is not defined, whichever
\* branch of the capability check defined it and however many times the
\* header has been read.
C7_MacroDoesNotLeak ==
  pc = EndOfFile =>
    \A t \in Toolchains : ~IsDefined(macros[t], L_AC_SWIFT_PRIVATE)

\* C7 witness: the end of the header is reached for the second time, by a
\* toolchain that took the first branch and by one that took the second.
C7_Witness ==
  /\ pc = EndOfFile
  /\ includes = 2
  /\ MixedSupport
  /\ \A t \in Toolchains : Warning("macro redefined") \notin diags[t]

\* C8: two toolchains that differ in the capability check declare the same
\* constant but for its annotation: same name, type, qualifiers and string
\* value, and the same storage in the linked program.
Core(d) == [name |-> d.name, type |-> d.type, pointer |-> d.pointer,
            storage |-> d.storage, const |-> d.const, value |-> d.value]
C8_CapabilityAffectsOnlyAnnotation ==
  \A t1, t2 \in Toolchains :
    /\ {Core(d) : d \in symbols[t1]} = {Core(d) : d \in symbols[t2]}
    /\ mem[t1] = mem[t2]

\* C8 witness: both kinds of toolchain have linked the program, with the
\* constant declared differently annotated.
C8_Witness ==
  /\ phase = "runtime"
  /\ \E t1, t2 \in Toolchains :
       /\ mem[t1].linked /\ mem[t2].linked
       /\ \E d1 \in symbols[t1] : \E d2 \in symbols[t2] :
            d1.annotation # d2.annotation

====
